---- MODULE Spec2Model ----
(***************************************************************************)
(* AlphaPulse risk monitor (src/app.py): the Monte Carlo simulation of an  *)
(* equally weighted portfolio and the 95% Value-at-Risk summary, as the    *)
(* Streamlit script executes them on every click of "Run Analysis".        *)
(*                                                                         *)
(* Numbers are exact rationals <<n, d>> in lowest terms with d > 0; the    *)
(* float NaN that pandas returns for the mean of no observation and the    *)
(* standard deviation of fewer than two is the pair <<0, 0>>.  Rounding of *)
(* IEEE doubles is not modelled.                                           *)
(***************************************************************************)
EXTENDS Integers, Sequences, FiniteSets, TLC

\* ------------------------------------------------------------------ bounds
\* Scaled-down values of num_simulations = 10000 and time_horizon = 252.
num_simulations == 2
time_horizon == 2
\* Largest number of price rows a download returns.
MaxRows == 3
\* Period of the abstract generator behind np.random.
StreamPeriod == 3
\* Largest run count and largest stride of the samples of PercentileSpec.
MaxRuns == 41
MaxStride == 3

\* --------------------------------------------------------------- rationals
Abs(x) == IF x < 0 THEN -x ELSE x

RECURSIVE GCD(_, _)
GCD(a, b) == IF b = 0 THEN a ELSE GCD(b, a % b)

NaN == <<0, 0>>
IsNaN(x) == x[2] = 0

Rat(n, d) ==
    LET g == GCD(Abs(n), Abs(d))
        s == IF d < 0 THEN -1 ELSE 1
    IN  IF d = 0 THEN NaN ELSE <<s * (n \div g), s * (d \div g)>>

FromInt(n) == <<n, 1>>

LCM(a, b) == (a \div GCD(a, b)) * b

Add(x, y) ==
    IF IsNaN(x) \/ IsNaN(y) THEN NaN
    ELSE LET l == LCM(x[2], y[2])
         IN  Rat(x[1] * (l \div x[2]) + y[1] * (l \div y[2]), l)

Neg(x) == IF IsNaN(x) THEN NaN ELSE <<-x[1], x[2]>>

Sub(x, y) == Add(x, Neg(y))

Mul(x, y) ==
    IF IsNaN(x) \/ IsNaN(y) THEN NaN
    ELSE LET g1 == GCD(Abs(x[1]), y[2])
             g2 == GCD(Abs(y[1]), x[2])
         IN  Rat((x[1] \div g1) * (y[1] \div g2), (x[2] \div g2) * (y[2] \div g1))

DivInt(x, k) == IF IsNaN(x) THEN NaN ELSE Mul(x, Rat(1, k))

\* Comparisons of floats: every comparison with NaN is false.
Less(x, y) ==
    /\ ~IsNaN(x)
    /\ ~IsNaN(y)
    /\ LET l == LCM(x[2], y[2])
       IN  x[1] * (l \div x[2]) < y[1] * (l \div y[2])

Greater(x, y) == Less(y, x)

LessEq(x, y) == ~IsNaN(x) /\ ~IsNaN(y) /\ ~Less(y, x)

Floor(x) == x[1] \div x[2]

\* ------------------------------------------------------------------ inputs
\* The selectable universe, cut down from the ten tickers of line 19; a
\* selection is the set of positions of the chosen tickers.
default_tickers == <<"AAPL", "MSFT">>
Selections == SUBSET (DOMAIN default_tickers)

\* Amounts the number_input widget can hold: it has no min_value.
default_investment == 10000
InvestmentChoices == {0, default_investment, 2 * default_investment}

\* Statistics the downloaded history can have.
Means == {FromInt(0)}
Stds == {FromInt(0), Rat(1, 2)}

\* Standard normal deviates the generator can emit.
Deviates == {-2, 1}
Streams == [0 .. StreamPeriod - 1 -> Deviates]

VARIABLES
    pc,                  \* position of the script
    tickers,             \* multiselect widget
    initial_investment,  \* number_input widget
    data_rows,           \* rows of the downloaded price table
    returns_rows,        \* rows of returns = data.pct_change().dropna()
    avg_daily_return,    \* returns.mean(), per ticker
    daily_vol,           \* returns.std(), per ticker
    stream,              \* the deviates that np.random.seed(42) fixes
    rng_pos,             \* state of the global generator: position in stream
    i,                   \* loop variable of the simulation loop
    random_returns,      \* random_returns of each run executed so far
    simulation_df,       \* column name -> simulated path
    simulated_price_paths, \* buffer allocated at line 94
    future_value_95,
    VaR_95,
    label,               \* which metric/banner was shown
    prev                 \* the analysis completed before the current one

vars == <<pc, tickers, initial_investment, data_rows, returns_rows,
          avg_daily_return, daily_vol, stream, rng_pos, i, random_returns,
          simulation_df, simulated_price_paths, future_value_95, VaR_95,
          label, prev>>

\* ------------------------------------------------------- library functions
\* Columns of the price table, in the table's order.
RECURSIVE Columns(_)
Columns(S) ==
    IF S = {} THEN <<>>
    ELSE LET m == CHOOSE x \in S : \A y \in S : x <= y
         IN  <<m>> \o Columns(S \ {m})

\* Variant: the seed call is missing and the generator keeps its state.
np_random_seed_kept(pos) == pos

\* np.random.seed(42): the generator restarts at the head of the stream.
np_random_seed(pos) == 0

\* One draw of the generator at position pos.
Deviate(pos) == stream[pos % StreamPeriod]

\* np.random.normal(loc, scale, (rows, cols)): loc + scale * z, filled row by
\* row, column c taking the parameters of the c-th column of the table.
np_random_normal(loc, scale, rows, cols, pos) ==
    [t \in 1 .. rows |->
        [c \in 1 .. Len(cols) |->
            Add(loc[cols[c]],
                Mul(scale[cols[c]],
                    FromInt(Deviate(pos + (t - 1) * Len(cols) + (c - 1)))))]]

RECURSIVE SumSeq(_)
SumSeq(s) == IF s = <<>> THEN FromInt(0) ELSE Add(s[1], SumSeq(Tail(s)))

\* np.mean(matrix, axis=1): one mean per row.
np_mean_axis1(matrix) ==
    [t \in 1 .. Len(matrix) |-> DivInt(SumSeq(matrix[t]), Len(matrix[t]))]

\* Lines 103-111: compound the investment along the daily returns.
RECURSIVE Compound(_, _)
Compound(current_value, daily) ==
    IF daily = <<>> THEN <<>>
    ELSE LET v == Mul(current_value, Add(FromInt(1), daily[1]))
         IN  <<v>> \o Compound(v, Tail(daily))

\* Variant: every day grows from the initial amount instead of the
\* previous day's value.
PortfolioPathFlat(investment, daily) ==
    [t \in 1 .. Len(daily) |-> Mul(FromInt(investment), Add(FromInt(1), daily[t]))]

PortfolioPath(investment, daily) == Compound(FromInt(investment), daily)

\* Variant: the run number is missing from the column name.
ColumnNameFixed(k) == 0

\* Name of the column that run k writes (f"Sim {k}").
ColumnName(k) == k

\* simulation_df[name] = path: a new name appends a column, a known name
\* overwrites it in place.
SetColumn(df, name, path) ==
    [columns |-> IF \E k \in 1 .. Len(df.columns) : df.columns[k] = name
                 THEN df.columns ELSE Append(df.columns, name),
     data |-> [c \in DOMAIN df.data \cup {name} |->
                 IF c = name THEN path ELSE df.data[c]]]

EmptyFrame == [columns |-> <<>>, data |-> <<>>]

\* simulation_df.iloc[-1]: the last row, one value per column.
LastRow(df) ==
    [k \in 1 .. Len(df.columns) |->
        LET col == df.data[df.columns[k]] IN col[Len(col)]]

RECURSIVE Insert(_, _)
Insert(x, s) ==
    IF s = <<>> THEN <<x>>
    ELSE IF LessEq(x, s[1]) THEN <<x>> \o s
    ELSE <<s[1]>> \o Insert(x, Tail(s))

RECURSIVE Sort(_)
Sort(s) == IF s = <<>> THEN <<>> ELSE Insert(s[1], Sort(Tail(s)))

\* Variant: method "lower", no interpolation.
np_percentile_lower(a, q) ==
    IF \E k \in 1 .. Len(a) : IsNaN(a[k]) THEN NaN
    ELSE Sort(a)[Floor(Rat(q * (Len(a) - 1), 100)) + 1]

\* np.percentile(a, q), method "linear": virtual index q/100 * (n - 1) into
\* the sorted sample, value interpolated between the two neighbours; NaN as
\* soon as the sample holds a NaN.
np_percentile(a, q) ==
    IF \E k \in 1 .. Len(a) : IsNaN(a[k]) THEN NaN
    ELSE LET n == Len(a)
             sorted == Sort(a)
             virtual == Rat(q * (n - 1), 100)
             previous == Floor(virtual)
             next == IF previous + 1 > n - 1 THEN n - 1 ELSE previous + 1
             gamma == Sub(virtual, FromInt(previous))
         IN  Add(sorted[previous + 1],
                 Mul(Sub(sorted[next + 1], sorted[previous + 1]), gamma))

\* Variant: the default amount instead of the amount entered.
ValueAtRiskFixed(investment, p5) == Sub(FromInt(default_investment), p5)

\* Line 131.
ValueAtRisk(investment, p5) == Sub(FromInt(investment), p5)

\* Variant: the comparison includes zero.
ClassifyInclusive(var) == IF LessEq(FromInt(0), var) THEN "loss" ELSE "gain"

\* Lines 140-145: which of the two metrics is displayed.
Classify(var) == IF Greater(var, FromInt(0)) THEN "loss" ELSE "gain"

\* ------------------------------------------------------------------- state
NoStats == [t \in {} |-> NaN]
NoResult == [ran |-> FALSE]

Init ==
    /\ pc = "idle"
    /\ tickers = DOMAIN default_tickers
    /\ initial_investment = default_investment
    /\ data_rows = 0
    /\ returns_rows = 0
    /\ avg_daily_return = NoStats
    /\ daily_vol = NoStats
    /\ stream \in Streams
    /\ rng_pos = 0
    /\ i = 0
    /\ random_returns = <<>>
    /\ simulation_df = EmptyFrame
    /\ simulated_price_paths = <<>>
    /\ future_value_95 = NaN
    /\ VaR_95 = NaN
    /\ label = "none"
    /\ prev = NoResult

AtRest == pc \in {"idle", "done", "error"}

\* What a completed analysis handed to the page.
Snapshot ==
    [ran |-> TRUE,
     tickers |-> tickers,
     investment |-> initial_investment,
     mean |-> avg_daily_return,
     vol |-> daily_vol,
     draws |-> random_returns,
     ensemble |-> simulation_df,
     p5 |-> future_value_95,
     var |-> VaR_95]

Archive == IF pc = "done" THEN Snapshot ELSE prev

analysisVars == <<data_rows, returns_rows, avg_daily_return, daily_vol, i,
                  random_returns, simulation_df, simulated_price_paths,
                  future_value_95, VaR_95, label>>

\* ----------------------------------------------------------------- actions
\* Line 20: the user changes the selection; the script reruns without the
\* button and shows the hint of line 152.
SelectTickers(S) ==
    /\ AtRest
    /\ S # tickers
    /\ tickers' = S
    /\ pc' = "idle"
    /\ prev' = Archive
    /\ UNCHANGED <<initial_investment, stream, rng_pos, analysisVars>>

\* Line 27: the user changes the amount.
SetInvestment(v) ==
    /\ AtRest
    /\ v # initial_investment
    /\ initial_investment' = v
    /\ pc' = "idle"
    /\ prev' = Archive
    /\ UNCHANGED <<tickers, stream, rng_pos, analysisVars>>

\* Line 30: the button is pressed and the try block is entered.
RunAnalysis ==
    /\ AtRest
    /\ pc' = "download"
    /\ prev' = Archive
    /\ data_rows' = 0
    /\ returns_rows' = 0
    /\ avg_daily_return' = NoStats
    /\ daily_vol' = NoStats
    /\ i' = 0
    /\ random_returns' = <<>>
    /\ simulation_df' = EmptyFrame
    /\ simulated_price_paths' = <<>>
    /\ future_value_95' = NaN
    /\ VaR_95' = NaN
    /\ label' = "none"
    /\ UNCHANGED <<tickers, initial_investment, stream, rng_pos>>

\* Line 36 raises (network failure, nothing to download).
DownloadFails ==
    /\ pc = "download"
    /\ pc' = "error"
    /\ UNCHANGED <<tickers, initial_investment, stream, rng_pos, prev,
                   analysisVars>>

\* Lines 36-46: a price table of `rows` rows arrives and `kept` rows of
\* returns survive pct_change().dropna().  An empty selection has no prices.
Download(rows, kept) ==
    /\ pc = "download"
    /\ tickers = {} => rows = 0
    /\ kept <= (IF rows = 0 THEN 0 ELSE rows - 1)
    /\ data_rows' = rows
    /\ returns_rows' = kept
    /\ pc' = "tabs"
    /\ UNCHANGED <<tickers, initial_investment, stream, rng_pos, prev,
                   avg_daily_return, daily_vol, i, random_returns,
                   simulation_df, simulated_price_paths, future_value_95,
                   VaR_95, label>>

\* returns.mean() and returns.std() of `kept` rows: the mean of no row and
\* the sample deviation of fewer than two rows are NaN.
StatsOf(kept, m, s) ==
    /\ DOMAIN m = tickers
    /\ DOMAIN s = tickers
    /\ \A t \in tickers :
          /\ m[t] = NaN <=> kept = 0
          /\ s[t] = NaN <=> kept < 2

\* Lines 78-94 with an empty table: data.iloc[-1] raises IndexError after the
\* generator was seeded.
PrepareFails ==
    /\ pc = "tabs"
    /\ data_rows = 0
    /\ rng_pos' = np_random_seed(rng_pos)
    /\ pc' = "error"
    /\ UNCHANGED <<tickers, initial_investment, stream, prev, analysisVars>>

\* Lines 78-94: seed, constants, empty frame, statistics, zero buffer.
Prepare ==
    /\ pc = "tabs"
    /\ data_rows > 0
    /\ \E m \in [tickers -> Means \cup {NaN}], s \in [tickers -> Stds \cup {NaN}] :
          /\ StatsOf(returns_rows, m, s)
          /\ avg_daily_return' = m
          /\ daily_vol' = s
    /\ rng_pos' = np_random_seed(rng_pos)
    /\ simulation_df' = EmptyFrame
    /\ simulated_price_paths' =
          [t \in 1 .. time_horizon |-> [r \in 1 .. num_simulations |-> FromInt(0)]]
    /\ i' = 0
    /\ pc' = "simulate"
    /\ UNCHANGED <<tickers, initial_investment, stream, prev, data_rows,
                   returns_rows, random_returns, future_value_95, VaR_95,
                   label>>

\* Lines 97-116: one pass of the simulation loop.
Simulate ==
    /\ pc = "simulate"
    /\ i < num_simulations
    /\ LET cols == Columns(tickers)
           draw == np_random_normal(avg_daily_return, daily_vol,
                                    time_horizon, cols, rng_pos)
           portfolio_daily_returns == np_mean_axis1(draw)
           portfolio_path == PortfolioPath(initial_investment,
                                           portfolio_daily_returns)
       IN  /\ random_returns' = Append(random_returns, draw)
           /\ rng_pos' = (rng_pos + time_horizon * Len(cols)) % StreamPeriod
           /\ simulation_df' = SetColumn(simulation_df, ColumnName(i),
                                         portfolio_path)
    /\ i' = i + 1
    /\ UNCHANGED <<pc, tickers, initial_investment, stream, prev, data_rows,
                   returns_rows, avg_daily_return, daily_vol,
                   simulated_price_paths, future_value_95, VaR_95, label>>

\* Lines 118-145 after a loop of `runs` passes: plot, percentile, VaR and
\* the banner.
SummarizeAfter(runs) ==
    /\ pc = "simulate"
    /\ i = runs
    /\ LET ending_values == LastRow(simulation_df)
           p5 == np_percentile(ending_values, 5)
           var == ValueAtRisk(initial_investment, p5)
       IN  /\ future_value_95' = p5
           /\ VaR_95' = var
           /\ label' = Classify(var)
    /\ pc' = "done"
    /\ UNCHANGED <<tickers, initial_investment, stream, rng_pos, prev,
                   data_rows, returns_rows, avg_daily_return, daily_vol, i,
                   random_returns, simulation_df, simulated_price_paths>>

Summarize == SummarizeAfter(num_simulations)

\* Line 68 on a correlation matrix that is all NaN: seaborn releases that
\* take the minimum of the unmasked cells raise here, later ones draw an
\* empty map.
HeatmapFails ==
    /\ pc = "tabs"
    /\ returns_rows < 2
    /\ pc' = "error"
    /\ UNCHANGED <<tickers, initial_investment, stream, rng_pos, prev,
                   analysisVars>>

Next ==
    \/ \E S \in Selections : SelectTickers(S)
    \/ \E v \in InvestmentChoices : SetInvestment(v)
    \/ RunAnalysis
    \/ DownloadFails
    \/ \E rows \in 0 .. MaxRows, kept \in 0 .. MaxRows : Download(rows, kept)
    \/ HeatmapFails
    \/ PrepareFails
    \/ Prepare
    \/ Simulate
    \/ Summarize

Spec == Init /\ [][Next]_vars

\* ------------------------------------------- the risk summary on its own
\* Ending value of run k in a sample of n runs: the halves 1/2 .. n/2, in
\* ascending order for stride 1 and scrambled (with repeats when the stride
\* shares a factor with n) otherwise.
SampleValue(n, stride, k) == Rat(((stride * k) % n) + 1, 2)

\* The frame the loop of lines 97-113 leaves behind after n runs.
SampleFrame(n, stride) ==
    [columns |-> [k \in 1 .. n |-> ColumnName(k - 1)],
     data |-> [c \in 0 .. n - 1 |->
                 [t \in 1 .. time_horizon |->
                     IF t = time_horizon THEN SampleValue(n, stride, c)
                     ELSE FromInt(initial_investment)]]]

InitSample ==
    /\ pc = "simulate"
    /\ tickers = DOMAIN default_tickers
    /\ initial_investment \in {1, default_investment}
    /\ data_rows = MaxRows
    /\ returns_rows = MaxRows - 1
    /\ avg_daily_return = [t \in tickers |-> FromInt(0)]
    /\ daily_vol = [t \in tickers |-> FromInt(0)]
    /\ stream = [k \in 0 .. StreamPeriod - 1 |-> 1]
    /\ rng_pos = 0
    /\ i \in 1 .. MaxRuns
    /\ random_returns = <<>>
    /\ \E stride \in 1 .. MaxStride : simulation_df = SampleFrame(i, stride)
    /\ simulated_price_paths = <<>>
    /\ future_value_95 = NaN
    /\ VaR_95 = NaN
    /\ label = "none"
    /\ prev = NoResult

SummarizeSample == \E runs \in 1 .. MaxRuns : SummarizeAfter(runs)

PercentileSpec == InitSample /\ [][SummarizeSample]_vars

\* ------------------------------------------------------------------ claims
Running == pc \in {"download", "tabs", "simulate"}
Current == Running \/ pc \in {"done", "error"}
StoredRuns == 1 .. Len(random_returns)
NumAssets == Cardinality(tickers)
Zero == FromInt(0)

\* Column of run r (1-based) under the name the loop gives it.
ColumnOf(r) == simulation_df.data[r - 1]

\* value[t] * N = value[t-1] * (N + sum of the N returns of day t).
StepHolds(r, t) ==
    LET before == IF t = 1 THEN FromInt(initial_investment)
                  ELSE ColumnOf(r)[t - 1]
    IN  Mul(ColumnOf(r)[t], FromInt(NumAssets)) =
        Mul(before, Add(FromInt(NumAssets), SumSeq(random_returns[r][t])))

\* C1: every stored value of every run is the previous day's value (the
\* initial investment on day 0) times one plus the unweighted mean of that
\* run's per-asset returns of the day.
C1_Compounding ==
    pc \in {"simulate", "done"} =>
        \A r \in StoredRuns :
            /\ (r - 1) \in DOMAIN simulation_df.data
            /\ \A t \in 1 .. time_horizon : StepHolds(r, t)

C1_Witness ==
    /\ pc = "done"
    /\ NumAssets = 2
    /\ \E r \in StoredRuns :
          /\ ~IsNaN(ColumnOf(r)[1])
          /\ ColumnOf(r)[1] # FromInt(initial_investment)
          /\ ColumnOf(r)[time_horizon] # ColumnOf(r)[1]
          /\ random_returns[r][1][1] # random_returns[r][1][2]

InvalidConfiguration == initial_investment <= 0 \/ tickers = {}

NothingSimulated ==
    /\ random_returns = <<>>
    /\ simulation_df = EmptyFrame
    /\ label = "none"

\* C2: a configuration with a non-positive amount or no asset is rejected
\* before any random number is drawn and before any run starts.
C2_RejectsInvalidConfiguration ==
    (Current /\ InvalidConfiguration) => (NothingSimulated /\ pc # "done")

\* C3: with fewer than two return observations nothing is simulated and no
\* NaN reaches the ensemble or the metrics.
C3_RejectsInsufficientHistory ==
    (pc \in {"tabs", "simulate", "done"} /\ returns_rows < 2) =>
        /\ random_returns = <<>>
        /\ simulation_df.columns = <<>>
        /\ pc # "done"

\* C4: the label agrees with the sign of VaR95 = V0 - p5: p5 < V0 is a loss
\* with VaR95 > 0, p5 >= V0 is a gain with VaR95 <= 0.
C4_SignConsistency ==
    pc = "done" =>
        /\ Less(future_value_95, FromInt(initial_investment)) =>
              /\ label = "loss"
              /\ Greater(VaR_95, Zero)
              /\ Add(VaR_95, future_value_95) = FromInt(initial_investment)
        /\ LessEq(FromInt(initial_investment), future_value_95) =>
              /\ label = "gain"
              /\ LessEq(VaR_95, Zero)
              /\ Add(VaR_95, future_value_95) = FromInt(initial_investment)

\* The degenerate case: positive amount, every value equal to it, VaR95 = 0.
C4_Witness ==
    /\ pc = "done"
    /\ initial_investment > 0
    /\ future_value_95 = FromInt(initial_investment)
    /\ VaR_95 = Zero
    /\ label = "gain"

\* The ending values: the last value of each run's column.
NumRuns == Len(simulation_df.columns)
EndingValue(r) == ColumnOf(r)[time_horizon]

\* The j-th smallest ending value, j counted from 0.
OrderStatistic(j) ==
    CHOOSE v \in {EndingValue(r) : r \in 1 .. NumRuns} :
        /\ Cardinality({r \in 1 .. NumRuns : Less(EndingValue(r), v)}) <= j
        /\ j < Cardinality({r \in 1 .. NumRuns : LessEq(EndingValue(r), v)})

RankFloor == (5 * (NumRuns - 1)) \div 100
RankCeil == IF 100 * RankFloor = 5 * (NumRuns - 1) THEN RankFloor
            ELSE RankFloor + 1

InterpolatedP5 ==
    Add(OrderStatistic(RankFloor),
        Mul(Sub(Rat(5 * (NumRuns - 1), 100), FromInt(RankFloor)),
            Sub(OrderStatistic(RankCeil), OrderStatistic(RankFloor))))

\* C5: p5 is the linear interpolation between the order statistics of the
\* R ending values at rank 0.05 * (R - 1); for R = 1 it is the one value.
C5_Percentile ==
    pc = "done" =>
        /\ future_value_95 = InterpolatedP5
        /\ NumRuns = 1 => future_value_95 = EndingValue(1)

\* A sample whose rank falls strictly between two different order
\* statistics beyond the first.
C5_Witness ==
    /\ pc = "done"
    /\ RankFloor >= 1
    /\ RankCeil = RankFloor + 1
    /\ Less(OrderStatistic(RankFloor), future_value_95)
    /\ Less(future_value_95, OrderStatistic(RankCeil))
    /\ \E r \in 1 .. NumRuns - 1 : Less(EndingValue(r + 1), EndingValue(r))

SameStatistics ==
    /\ prev.ran
    /\ prev.tickers = tickers
    /\ prev.mean = avg_daily_return
    /\ prev.vol = daily_vol

\* The return of asset column c on day t of run r, read off the seeded
\* stream at the offset left by the r - 1 runs before it.
StreamReturn(r, t, c) ==
    LET cols == Columns(tickers)
        offset == (r - 1) * time_horizon * NumAssets + (t - 1) * NumAssets + (c - 1)
    IN  Add(avg_daily_return[cols[c]],
            Mul(daily_vol[cols[c]], FromInt(stream[offset % StreamPeriod])))

\* C6: the same seed and statistics give the same draws and, for the same
\* amount, the same ensemble; run r continues the one seeded stream where
\* the runs before it stopped.
C6_Determinism ==
    /\ (pc = "done" /\ SameStatistics) =>
          /\ random_returns = prev.draws
          /\ prev.investment = initial_investment =>
                simulation_df = prev.ensemble
    /\ pc \in {"simulate", "done"} =>
          \A r \in StoredRuns : \A t \in 1 .. time_horizon :
              \A c \in 1 .. NumAssets :
                  random_returns[r][t][c] = StreamReturn(r, t, c)

C6_Witness ==
    /\ pc = "done"
    /\ SameStatistics
    /\ prev.investment = initial_investment
    /\ simulation_df = prev.ensemble
    /\ random_returns[1] # random_returns[2]
    /\ ~IsNaN(future_value_95)

Twice(x) == Mul(FromInt(2), x)

\* C7: with statistics and seed unchanged, twice the amount gives twice
\* every value of the ensemble and twice VaR95.
C7_ScaleSensitivity ==
    (pc = "done" /\ SameStatistics /\ initial_investment = 2 * prev.investment) =>
        /\ simulation_df.columns = prev.ensemble.columns
        /\ \A c \in DOMAIN simulation_df.data : \A t \in 1 .. time_horizon :
              simulation_df.data[c][t] = Twice(prev.ensemble.data[c][t])
        /\ VaR_95 = Twice(prev.var)

C7_Witness ==
    /\ pc = "done"
    /\ SameStatistics
    /\ prev.investment > 0
    /\ initial_investment = 2 * prev.investment
    /\ ~IsNaN(VaR_95)
    /\ VaR_95 # Zero
    /\ VaR_95 = Twice(prev.var)

LoopOver == pc = "done" \/ (pc = "simulate" /\ i = num_simulations)

\* C8: after the loop the ensemble has H rows and R columns, column r
\* holding the path of run r.
C8_Shape ==
    LoopOver =>
        /\ Len(simulation_df.columns) = num_simulations
        /\ \A r \in 1 .. num_simulations :
              /\ simulation_df.columns[r] = r - 1
              /\ Len(simulation_df.data[r - 1]) = time_horizon
              /\ \A t \in 1 .. time_horizon : StepHolds(r, t)

C8_Witness ==
    /\ pc = "done"
    /\ Len(simulation_df.columns) = num_simulations
    /\ \E r \in 2 .. num_simulations : ColumnOf(r) # ColumnOf(1)
    /\ ~IsNaN(ColumnOf(1)[1])

\* Mean return of day t of run r.
DailyReturn(r, t) == DivInt(SumSeq(random_returns[r][t]), NumAssets)

\* C9: while the simulation runs and after it, every stored value is
\* strictly positive when every simulated daily return is above -100%,
\* whatever amount was entered.
C9_StrictlyPositive ==
    (pc \in {"simulate", "done"}
       /\ \A r \in StoredRuns : \A t \in 1 .. time_horizon :
             Greater(DailyReturn(r, t), FromInt(-1))) =>
        \A c \in DOMAIN simulation_df.data : \A t \in 1 .. time_horizon :
            Greater(simulation_df.data[c][t], Zero)

StatisticsInvalid ==
    \/ returns_rows < 2
    \/ \E t \in DOMAIN avg_daily_return : IsNaN(avg_daily_return[t])
    \/ \E t \in DOMAIN daily_vol : IsNaN(daily_vol[t])

\* C10: a failed fetch or invalid statistics leave the simulation unstarted
\* (no draw, no run, no metric); otherwise the metrics come after all R
\* runs and the runs after the fetch.
C10_StageOrder ==
    /\ pc = "error" => NothingSimulated
    /\ (pc \in {"tabs", "simulate", "done"} /\ StatisticsInvalid) =>
          NothingSimulated
    /\ (Current /\ label # "none") => Len(random_returns) = num_simulations
    /\ (Current /\ random_returns # <<>>) => data_rows > 0

====
